---- MODULE Spec2Model ----
(***************************************************************************)
(* rssfilter: builtin_main builds one or two field-regex filters, composes *)
(* them with AND_filter / OR_filter, fetches and normalises the feed,      *)
(* applies the filter, backfills the feed description and hands the feed   *)
(* to the serializer.                                                      *)
(*                                                                         *)
(* Python dicts are functions whose DOMAIN is the set of keys present.     *)
(* Strings that a regex is run on are sequences of one-character strings.  *)
(***************************************************************************)
EXTENDS Integers, Sequences, FiniteSets, TLC

VARIABLES
    title_filters,   \* argument of builtin_main: regex patterns for titles
    url_filters,     \* argument of builtin_main: regex patterns for links
    operation,       \* argument of builtin_main
    pc,              \* position in builtin_main / filter_feed
    exc,             \* the exception that ended the run, "none" if none
    exc_key,         \* the key of a KeyError, "" otherwise
    raised_in,       \* the function whose statement raised
    both_filters,    \* local of builtin_main
    final_filter,    \* local of builtin_main
    parsed,          \* what feedparser.parse returned
    fetched,         \* what fetch_and_prepare_feed returned
    f,               \* local f of filter_feed
    fetch_called,    \* feedparser.parse has been called
    transform_called,\* transform_func has been called
    out              \* what the serializer was given

vars == <<title_filters, url_filters, operation, pc, exc, exc_key, raised_in,
          both_filters, final_filter, parsed, fetched, f, fetch_called,
          transform_called, out>>

-----------------------------------------------------------------------------
(* Bounds *)

MaxEntries == 2

MaxFilters == 3

BSeq(S, n) == UNION {[1..k -> S] : k \in 0..n}

-----------------------------------------------------------------------------
(* Regular expressions: literals, "." and the postfix "*" *)

\* re.compile: a "*" with nothing before it, or right after another "*", is an
\* error; otherwise the atoms of the pattern
RECURSIVE CompileFrom(_, _)
CompileFrom(src, atoms) ==
    IF src = <<>> THEN [ok |-> TRUE, atoms |-> atoms]
    ELSE IF Head(src) = "*" THEN [ok |-> FALSE, atoms |-> <<>>]
    ELSE IF Len(src) >= 2 /\ src[2] = "*"
         THEN CompileFrom(SubSeq(src, 3, Len(src)),
                          Append(atoms, [ch |-> Head(src), star |-> TRUE]))
         ELSE CompileFrom(Tail(src),
                          Append(atoms, [ch |-> Head(src), star |-> FALSE]))

re_compile(src) == CompileFrom(src, <<>>)

AtomMatches(atom, c) == atom.ch = "." \/ atom.ch = c

\* the atoms match a prefix of s
RECURSIVE MatchHere(_, _)
MatchHere(atoms, s) ==
    IF atoms = <<>> THEN TRUE
    ELSE LET a == Head(atoms) IN
         IF a.star
         THEN \/ MatchHere(Tail(atoms), s)
              \/ /\ s # <<>>
                 /\ AtomMatches(a, Head(s))
                 /\ MatchHere(atoms, Tail(s))
         ELSE /\ s # <<>>
              /\ AtomMatches(a, Head(s))
              /\ MatchHere(Tail(atoms), Tail(s))

\* Pattern.search: a match starting anywhere in s
re_search(atoms, s) ==
    \E start \in 1..(Len(s) + 1) : MatchHere(atoms, SubSeq(s, start, Len(s)))

-----------------------------------------------------------------------------
(* Filters *)

Ok(feed) == [exc |-> "none", key |-> "", feed |-> feed]

Raise(kind, key, feed) == [exc |-> kind, key |-> key, feed |-> feed]

\* entry_field_re_filter: the construction; a str pattern is compiled
entry_field_re_filter(re_pattern, key) ==
    IF "src" \in DOMAIN re_pattern
    THEN LET c == re_compile(re_pattern.src) IN
         IF c.ok THEN [ok |-> TRUE,
                       filter |-> [type |-> "re", atoms |-> c.atoms, key |-> key]]
                 ELSE [ok |-> FALSE, filter |-> [type |-> "none"]]
    ELSE [ok |-> TRUE,
          filter |-> [type |-> "re", atoms |-> re_pattern.atoms, key |-> key]]

in_url_filter(re_pattern) == entry_field_re_filter(re_pattern, "link")

\* as in_title_filter, but testing the 'link' field
in_title_filter_link(re_pattern) == entry_field_re_filter(re_pattern, "link")

in_title_filter(re_pattern) == entry_field_re_filter(re_pattern, "title")

\* entry_field_re_filter.fil: i[key] raises KeyError on an entry without key
fil(atoms, key, feed) ==
    IF \E n \in 1..Len(feed.entries) : key \notin DOMAIN feed.entries[n]
    THEN Raise("KeyError", key, feed)
    ELSE Ok([feed EXCEPT !.entries =
                SelectSeq(feed.entries, LAMBDA i : re_search(atoms, i[key]))])

OR_filter(filter1, filter2) ==
    [type |-> "OR", filter1 |-> filter1, filter2 |-> filter2]

\* as AND_filter, but never calling filter2
AND_filter_first(filter1, filter2) == filter1

\* as AND_filter, but composing the way OR_filter does
AND_filter_as_or(filter1, filter2) == OR_filter(filter1, filter2)

AND_filter(filter1, filter2) ==
    [type |-> "AND", filter1 |-> filter1, filter2 |-> filter2]

\* as DedupLoop, without the 'continue' on a link already seen
RECURSIVE DedupLoop_noskip(_, _, _)
DedupLoop_noskip(rest, seen_urls, entries) ==
    IF rest = <<>> THEN [entries |-> entries, seen_urls |-> seen_urls]
    ELSE DedupLoop_noskip(Tail(rest), seen_urls \cup {Head(rest).link},
                          Append(entries, Head(rest)))

\* the loop of orfilter over filtered1['entries'] + filtered2['entries']
RECURSIVE DedupLoop(_, _, _)
DedupLoop(rest, seen_urls, entries) ==
    IF rest = <<>> THEN [entries |-> entries, seen_urls |-> seen_urls]
    ELSE LET i == Head(rest) IN
         IF i.link \in seen_urls
         THEN DedupLoop(Tail(rest), seen_urls, entries)
         ELSE DedupLoop(Tail(rest), seen_urls \cup {i.link}, Append(entries, i))

\* list.sort(key=pubdate) is stable: x goes after every entry not later than it
InsertByPubdate(sorted, x) ==
    LET n == Cardinality({k \in 1..Len(sorted) : sorted[k].pubdate <= x.pubdate})
    IN SubSeq(sorted, 1, n) \o <<x>> \o SubSeq(sorted, n + 1, Len(sorted))

\* as SortByPubdate, without the sort
SortByPubdate_none(s) == s

RECURSIVE SortByPubdate(_)
SortByPubdate(s) ==
    IF s = <<>> THEN <<>>
    ELSE InsertByPubdate(SortByPubdate(SubSeq(s, 1, Len(s) - 1)), s[Len(s)])

\* as deepcopy_isolated, but filter1 ran on F itself and left its entries in it
deepcopy_shared(r1, F) == r1.feed

\* orfilter line 129: filter1 runs on copy.deepcopy(F), so the F handed to
\* filter2 on line 130 is the feed as it was before filter1 ran
deepcopy_isolated(r1, F) == F

\* orfilter lines 131-141, given what filter1 and filter2 returned
orfilter(r1, r2, F) ==
    IF r1.exc # "none" THEN r1
    ELSE IF r2.exc # "none" THEN r2
    ELSE LET cat == r1.feed.entries \o r2.feed.entries IN
         IF \E n \in 1..Len(cat) : "link" \notin DOMAIN cat[n]
         THEN Raise("KeyError", "link", F)
         ELSE LET d == DedupLoop(cat, {}, <<>>)
                  entries == SortByPubdate(d.entries)
              IN IF Len(entries) # Cardinality(d.seen_urls)
                 THEN Raise("AssertionError", "", F)
                 ELSE Ok([r2.feed EXCEPT !.entries = entries])

\* calling a filter on a feed: fil, the lambda of AND_filter (filter2 first,
\* filter1 on what it returns), or orfilter
RECURSIVE Apply(_, _)
Apply(filter, F) ==
    IF filter.type = "re" THEN fil(filter.atoms, filter.key, F)
    ELSE IF filter.type = "AND"
    THEN LET r2 == Apply(filter.filter2, F) IN
         IF r2.exc # "none" THEN r2 ELSE Apply(filter.filter1, r2.feed)
    ELSE LET r1 == Apply(filter.filter1, F) IN
         IF r1.exc # "none" THEN r1
         ELSE orfilter(r1, Apply(filter.filter2, deepcopy_isolated(r1, F)), F)

-----------------------------------------------------------------------------
(* The arguments of builtin_main and the feeds feedparser.parse can return *)

Text == {<<"a">>, <<"b", "a">>}

\* published_parsed: a time.struct_time
Times == {[tm_yday |-> 1, tm_hour |-> 0], [tm_yday |-> 0, tm_hour |-> 25]}

\* "a" as a compiled Pattern, "ba*" and "*" as str
PatternPool ==
    { [atoms |-> <<[ch |-> "a", star |-> FALSE]>>],
      [src |-> <<"b", "a", "*">>],
      [src |-> <<"*">>] }

OperationPool == {"OR", "AND", "XOR"}

EntryPool ==
    {[link |-> l, title |-> t, published_parsed |-> p] :
        l \in Text, t \in Text, p \in Times}
    \cup {[link |-> l, published_parsed |-> p] : l \in Text, p \in Times}
    \cup {[title |-> t, published_parsed |-> p] : t \in Text, p \in Times}

EntryWithSummary ==
    [link |-> <<"a">>, title |-> <<"a">>, summary |-> "s",
     published_parsed |-> [tm_yday |-> 1, tm_hour |-> 0]]

EntryWithoutDate == [link |-> <<"a">>, title |-> <<"a">>]

MetaKeys == {"title", "link", "description", "language"}

MetaVals(k) ==
    IF k = "title" THEN {"", "T"}
    ELSE IF k = "link" THEN {"", "L"}
    ELSE IF k = "description" THEN {"", "D"}
    ELSE {"en"}

\* every feed-level dict over MetaKeys, the empty dict included
MetaPool ==
    {m \in UNION {[D -> {"", "T", "L", "D", "en"}] : D \in SUBSET MetaKeys} :
        \A k \in DOMAIN m : m[k] \in MetaVals(k)}

FullMeta ==
    [k \in {"title", "link", "description"} |->
        IF k = "title" THEN "T" ELSE IF k = "link" THEN "L" ELSE "D"]

StatusPool == {199, 200, 299, 300, 404}

\* a well-formed channel with every list of entries, and every channel and
\* status (or none: a feed not read over HTTP) with a one-entry list
Worlds ==
    {[status |-> 200, feed |-> FullMeta, entries |-> es] :
        es \in BSeq(EntryPool, MaxEntries)}
    \cup {[status |-> s, feed |-> m, entries |-> es] :
            s \in StatusPool, m \in MetaPool,
            es \in {<<EntryWithSummary>>, <<EntryWithoutDate>>}}
    \cup {[feed |-> m, entries |-> <<EntryWithSummary>>] : m \in MetaPool}

NoValue == [none |-> TRUE]

-----------------------------------------------------------------------------
(* fetch_and_prepare_feed and filter_feed *)

\* as StatusOk, with 300 let through
StatusOk_inclusive(status) == 200 <= status /\ status <= 300

\* the status test of fetch_and_prepare_feed
StatusOk(status) == 200 <= status /\ status < 300

\* time.mktime followed by datetime.fromtimestamp: the struct_time, read as
\* local time, normalised to one number of hours
pubdate_of(published_parsed) ==
    published_parsed.tm_yday * 24 + published_parsed.tm_hour

\* the loop of fetch_and_prepare_feed over one entry that has what it needs
with_pubdate(i) ==
    IF "pubdate" \in DOMAIN i THEN i
    ELSE i @@ ("pubdate" :> pubdate_of(i.published_parsed))

\* lines 55-62. _cast_feed_to_primitives turns the FeedParserDicts into dicts
\* with the same keys and values; dicts are functions here, so it changes nothing
fetch_and_prepare_feed(w) ==
    IF DOMAIN w.feed = {} THEN Raise("FeedFetchError", "", w)
    ELSE IF "status" \notin DOMAIN w THEN Raise("KeyError", "status", w)
    ELSE IF ~StatusOk(w.status) THEN Raise("FeedFetchError", "", w)
    ELSE IF \E n \in 1..Len(w.entries) :
                /\ "pubdate" \notin DOMAIN w.entries[n]
                /\ "published_parsed" \notin DOMAIN w.entries[n]
    THEN Raise("KeyError", "published_parsed", w)
    ELSE Ok([w EXCEPT !.entries = [n \in 1..Len(w.entries) |->
                                      with_pubdate(w.entries[n])]])

Truthy(d, k) == k \in DOMAIN d /\ d[k] # ""

\* filter_feed lines 72-78
backfill(feed) ==
    LET m == feed.feed
        set(v) == Ok([feed EXCEPT !.feed = ("description" :> v) @@ m])
    IN IF Truthy(m, "description") THEN Ok(feed)
       ELSE IF "title" \notin DOMAIN m THEN Raise("KeyError", "title", feed)
       ELSE IF m["title"] # "" THEN set(m["title"])
       ELSE IF "link" \notin DOMAIN m THEN Raise("KeyError", "link", feed)
       ELSE IF m["link"] # "" THEN set(m["link"])
       ELSE set("Unknown title")

\* filter_feed lines 84-87
with_description(i) ==
    IF "description" \notin DOMAIN i /\ "summary" \in DOMAIN i
    THEN i @@ ("description" :> i.summary)
    ELSE i

\* filter_feed lines 79-88: what Rss201rev2Feed and add_item are called with
serializer_input(feed) ==
    LET m == feed.feed IN
    IF "title" \notin DOMAIN m THEN Raise("KeyError", "title", feed)
    ELSE IF "link" \notin DOMAIN m THEN Raise("KeyError", "link", feed)
    ELSE Ok([title |-> m["title"], link |-> m["link"],
             description |-> m["description"],
             extra |-> [k \in DOMAIN m \ {"title", "link", "description"} |-> m[k]],
             items |-> [n \in 1..Len(feed.entries) |->
                           with_description(feed.entries[n])]])

-----------------------------------------------------------------------------
(* builtin_main, statement by statement *)

Init ==
    /\ title_filters \in BSeq(PatternPool, MaxFilters)
    /\ url_filters \in BSeq(PatternPool, MaxFilters)
    /\ Len(title_filters) + Len(url_filters) <= MaxFilters
    /\ operation \in OperationPool
    /\ pc = "build"
    /\ exc = "none"
    /\ exc_key = ""
    /\ raised_in = ""
    /\ both_filters = <<>>
    /\ final_filter = NoValue
    /\ parsed = NoValue
    /\ fetched = NoValue
    /\ f = NoValue
    /\ fetch_called = FALSE
    /\ transform_called = FALSE
    /\ out = NoValue

Raised(kind, key, where) ==
    /\ pc' = "raised"
    /\ exc' = kind
    /\ exc_key' = key
    /\ raised_in' = where

\* builtin_main lines 154-156
BuildFilters ==
    /\ pc = "build"
    /\ LET tf == [n \in 1..Len(title_filters) |-> in_title_filter(title_filters[n])]
           uf == [n \in 1..Len(url_filters) |-> in_url_filter(url_filters[n])]
       IN IF \/ \E n \in 1..Len(tf) : ~tf[n].ok
             \/ \E n \in 1..Len(uf) : ~uf[n].ok
          THEN /\ Raised("re.error", "", "entry_field_re_filter")
               /\ UNCHANGED both_filters
          ELSE /\ both_filters' = [n \in 1..Len(tf) |-> tf[n].filter]
                                  \o [n \in 1..Len(uf) |-> uf[n].filter]
               /\ pc' = "check"
               /\ UNCHANGED <<exc, exc_key, raised_in>>
    /\ UNCHANGED <<title_filters, url_filters, operation, final_filter, parsed,
                   fetched, f, fetch_called, transform_called, out>>

\* builtin_main lines 157-170
ComposeFilters ==
    /\ pc = "check"
    /\ IF operation \notin {"OR", "AND"}
       THEN Raised("FeedFilterError", "", "builtin_main") /\ UNCHANGED final_filter
       ELSE IF Len(both_filters) = 0
       THEN Raised("FeedFilterError", "", "builtin_main") /\ UNCHANGED final_filter
       ELSE IF Len(both_filters) = 1
       THEN /\ final_filter' = both_filters[1]
            /\ pc' = "fetch"
            /\ UNCHANGED <<exc, exc_key, raised_in>>
       ELSE IF Len(both_filters) = 2
       THEN /\ final_filter' = IF operation = "OR"
                               THEN OR_filter(both_filters[1], both_filters[2])
                               ELSE AND_filter(both_filters[1], both_filters[2])
            /\ pc' = "fetch"
            /\ UNCHANGED <<exc, exc_key, raised_in>>
       ELSE Raised("FeedFilterError", "", "builtin_main") /\ UNCHANGED final_filter
    /\ UNCHANGED <<title_filters, url_filters, operation, both_filters, parsed,
                   fetched, f, fetch_called, transform_called, out>>

\* filter_feed line 70
Fetch ==
    /\ pc = "fetch"
    /\ \E w \in Worlds :
        LET r == fetch_and_prepare_feed(w) IN
        /\ parsed' = w
        /\ fetch_called' = TRUE
        /\ IF r.exc # "none"
           THEN /\ Raised(r.exc, r.key, "fetch_and_prepare_feed")
                /\ UNCHANGED <<fetched, f>>
           ELSE /\ fetched' = r.feed
                /\ f' = r.feed
                /\ pc' = "transform"
                /\ UNCHANGED <<exc, exc_key, raised_in>>
    /\ UNCHANGED <<title_filters, url_filters, operation, both_filters,
                   final_filter, transform_called, out>>

\* filter_feed line 71
Transform ==
    /\ pc = "transform"
    /\ transform_called' = TRUE
    /\ LET r == Apply(final_filter, f) IN
       IF r.exc # "none"
       THEN Raised(r.exc, r.key, "transform_func") /\ UNCHANGED f
       ELSE /\ f' = r.feed
            /\ pc' = "backfill"
            /\ UNCHANGED <<exc, exc_key, raised_in>>
    /\ UNCHANGED <<title_filters, url_filters, operation, both_filters,
                   final_filter, parsed, fetched, fetch_called, out>>

\* filter_feed lines 72-78
Backfill ==
    /\ pc = "backfill"
    /\ LET r == backfill(f) IN
       IF r.exc # "none"
       THEN Raised(r.exc, r.key, "backfill") /\ UNCHANGED f
       ELSE /\ f' = r.feed
            /\ pc' = "serialize"
            /\ UNCHANGED <<exc, exc_key, raised_in>>
    /\ UNCHANGED <<title_filters, url_filters, operation, both_filters,
                   final_filter, parsed, fetched, fetch_called,
                   transform_called, out>>

\* filter_feed lines 79-91
Serialize ==
    /\ pc = "serialize"
    /\ LET r == serializer_input(f) IN
       IF r.exc # "none"
       THEN Raised(r.exc, r.key, "filter_feed") /\ UNCHANGED out
       ELSE /\ out' = r.feed
            /\ pc' = "returned"
            /\ UNCHANGED <<exc, exc_key, raised_in>>
    /\ UNCHANGED <<title_filters, url_filters, operation, both_filters,
                   final_filter, parsed, fetched, f, fetch_called,
                   transform_called>>

Next ==
    \/ BuildFilters
    \/ ComposeFilters
    \/ Fetch
    \/ Transform
    \/ Backfill
    \/ Serialize

Spec == Init /\ [][Next]_vars

-----------------------------------------------------------------------------
(* Vocabulary of the properties *)

NFilters == Len(title_filters) + Len(url_filters)

ValidOperation == operation \in {"OR", "AND"}

\* transform_func was called and returned
TransformDone == transform_called /\ raised_in # "transform_func"

\* builtin_main composed two filters with OR / with AND and called the result
OrCalled == transform_called /\ operation = "OR" /\ Len(both_filters) = 2

AndCalled == transform_called /\ operation = "AND" /\ Len(both_filters) = 2

\* filter number n of both_filters alone, on the feed as fetched
Kept(n) == Apply(both_filters[n], fetched)

BothKeep == Kept(1).exc = "none" /\ Kept(2).exc = "none"

\* filter1's surviving entries followed by filter2's
KeptCat == Kept(1).feed.entries \o Kept(2).feed.entries

Range(seq) == {seq[n] : n \in DOMAIN seq}

AllHave(seq, key) == \A n \in DOMAIN seq : key \in DOMAIN seq[n]

Ascending(seq) ==
    \A a, b \in DOMAIN seq : a < b => seq[a].pubdate <= seq[b].pubdate

\* the compiled form of a pattern argument
PatAtoms(p) == IF "src" \in DOMAIN p THEN re_compile(p.src).atoms ELSE p.atoms

\* entry i has the field and the pattern finds a match somewhere in it
HoldsMatch(i, key, p) == key \in DOMAIN i /\ re_search(PatAtoms(p), i[key])

-----------------------------------------------------------------------------
(* C1, as stated: with no filter, with three or more filters, or with an    *)
(* operation other than 'AND'/'OR', builtin_main raises FeedFilterError and *)
(* never fetches; with one or two filters and a valid operation it raises   *)
(* no FeedFilterError.                                                      *)
C1_FilterErrorOnBadArguments ==
    /\ (NFilters = 0 \/ NFilters >= 3 \/ ~ValidOperation)
          => /\ ~fetch_called
             /\ pc \in {"build", "check"}
                \/ (pc = "raised" /\ exc = "FeedFilterError")
    /\ (NFilters \in {1, 2} /\ ValidOperation) => exc # "FeedFilterError"

(* C2, as stated: a failure while the filters are built, a regex that does  *)
(* not compile included, reaches the caller as FeedFilterError, before the  *)
(* feed is fetched.                                                         *)
C2_BuildFailureIsFilterError ==
    raised_in = "entry_field_re_filter"
        => exc = "FeedFilterError" /\ ~fetch_called

(* C3: the result of OR_filter(f1, f2) holds each link at most once, and as *)
(* many entries as there are distinct links among the entries f1 keeps and  *)
(* the entries f2 keeps.                                                    *)
C3_OrOneEntryPerLink ==
    (OrCalled /\ TransformDone) =>
        /\ \A a, b \in DOMAIN f.entries :
              a # b => f.entries[a].link # f.entries[b].link
        /\ Len(f.entries) = Cardinality({i.link : i \in Range(KeptCat)})

C3_Witness ==
    /\ OrCalled /\ TransformDone
    /\ \E a \in Range(Kept(1).feed.entries), b \in Range(Kept(2).feed.entries) :
          a.link = b.link
    /\ Len(f.entries) >= 2

\* two different entries of the feed share a link, both survive a filter of
\* the OR, and orfilter got as far as its assertion
DuplicateSurvives ==
    /\ OrCalled
    /\ BothKeep
    /\ AllHave(KeptCat, "link")
    /\ \E a, b \in Range(KeptCat) : a # b /\ a.link = b.link

FirstWithLink(seq, l) ==
    seq[CHOOSE n \in DOMAIN seq :
            /\ seq[n].link = l
            /\ \A k \in 1..(n - 1) : seq[k].link # l]

(* C4, as stated: when two distinct entries with the same link both survive *)
(* an OR-composed filter, the assertion of OR_filter fails.                 *)
C4_DuplicateLinkIsFatal ==
    DuplicateSurvives => pc = "raised" /\ exc = "AssertionError"

(* C4, amended: in that case the assertion holds and orfilter returns; of   *)
(* the entries sharing a link the result keeps exactly the first one of     *)
(* filter1's survivors followed by filter2's, the others are dropped.       *)
C4_DuplicateLinkIsDropped ==
    DuplicateSurvives =>
        /\ exc # "AssertionError"
        /\ TransformDone
        /\ \A l \in {i.link : i \in Range(KeptCat)} :
              /\ Cardinality({n \in DOMAIN f.entries : f.entries[n].link = l}) = 1
              /\ FirstWithLink(KeptCat, l) \in Range(f.entries)

C4_Witness ==
    /\ DuplicateSurvives
    /\ TransformDone
    /\ \E a, b \in Range(Kept(1).feed.entries) :
          /\ a.link = b.link
          /\ a.pubdate # b.pubdate
          /\ Cardinality({a, b} \cap Range(f.entries)) = 1

\* the two filters of the OR keep disjoint sets of entries
DisjointKeep ==
    /\ OrCalled
    /\ BothKeep
    /\ Range(Kept(1).feed.entries) \cap Range(Kept(2).feed.entries) = {}

(* C5, as stated: when f1 and f2 keep disjoint sets of m and n entries,     *)
(* OR_filter(f1, f2) returns m+n entries in ascending pubdate order.        *)
C5_OrDisjointSum ==
    DisjointKeep =>
        /\ TransformDone
        /\ Len(f.entries) = Len(Kept(1).feed.entries) + Len(Kept(2).feed.entries)
        /\ Ascending(f.entries)

DistinctLinks(seq) ==
    /\ AllHave(seq, "link")
    /\ \A a, b \in DOMAIN seq : a # b => seq[a].link # seq[b].link

(* C5, amended: when f1 and f2 keep disjoint sets of m and n entries and    *)
(* the kept entries all have a link, no two the same, OR_filter(f1, f2)     *)
(* returns those m+n entries in ascending pubdate order.                    *)
C5_OrDisjointSumDistinctLinks ==
    (DisjointKeep /\ DistinctLinks(KeptCat)) =>
        /\ TransformDone
        /\ Len(f.entries) = Len(Kept(1).feed.entries) + Len(Kept(2).feed.entries)
        /\ Range(f.entries) = Range(KeptCat)
        /\ Ascending(f.entries)

C5_Witness ==
    /\ DisjointKeep /\ DistinctLinks(KeptCat) /\ TransformDone
    /\ Len(Kept(1).feed.entries) >= 1
    /\ Len(Kept(2).feed.entries) >= 1
    /\ Len(fetched.entries) > Len(Kept(1).feed.entries)
    /\ ~Ascending(KeptCat)

\* AND_filter with the two filters the other way round, on the feed as fetched
Swapped == Apply(AND_filter(both_filters[2], both_filters[1]), fetched)

(* C6, as stated: AND_filter(f1, f2) and AND_filter(f2, f1) end the same    *)
(* way on every feed: the same entries, or a failure of the same kind.      *)
C6_AndCommutes ==
    AndCalled =>
        IF TransformDone
        THEN Swapped.exc = "none" /\ Swapped.feed.entries = f.entries
        ELSE Swapped.exc = exc

(* C6, amended: the two orders return the same entries whenever both        *)
(* return, and both return on a feed whose entries all have the keys the    *)
(* two filters test.                                                        *)
C6_AndCommutesWhenKeysPresent ==
    AndCalled =>
        /\ (TransformDone /\ Swapped.exc = "none")
              => Swapped.feed.entries = f.entries
        /\ (/\ AllHave(fetched.entries, both_filters[1].key)
            /\ AllHave(fetched.entries, both_filters[2].key))
              => TransformDone /\ Swapped.exc = "none"

C6_Witness ==
    /\ AndCalled /\ TransformDone /\ Swapped.exc = "none"
    /\ both_filters[1].key # both_filters[2].key
    /\ Len(f.entries) >= 1
    /\ Len(fetched.entries) > Len(f.entries)
    /\ Kept(1).feed.entries # Kept(2).feed.entries

(* C7: AND_filter(f, f) gives what f alone gives: the same feed, entries in *)
(* the same order and the same metadata, or the same failure.               *)
C7_AndIdempotent ==
    (AndCalled /\ both_filters[1] = both_filters[2]) =>
        LET alone == Apply(both_filters[1], fetched) IN
        IF TransformDone
        THEN /\ alone.exc = "none"
             /\ alone.feed.entries = f.entries
             /\ pc = "backfill" => alone.feed = f
        ELSE alone.exc = exc /\ alone.key = exc_key

C7_Witness ==
    /\ AndCalled /\ both_filters[1] = both_filters[2]
    /\ pc = "backfill"
    /\ Len(f.entries) = 2
    /\ ~Ascending(f.entries)

\* the backfill of filter_feed has run, on a feed that came out of the
\* transform without a description
BackfillRan ==
    \/ pc \in {"serialize", "returned"}
    \/ pc = "raised" /\ raised_in \in {"backfill", "filter_feed"}

Present(d, k) == k \in DOMAIN d /\ d[k] # ""

ExpectedDescription ==
    IF Present(fetched.feed, "title") THEN fetched.feed["title"]
    ELSE IF Present(fetched.feed, "link") THEN fetched.feed["link"]
    ELSE "Unknown title"

(* C8, as stated: when the transformed feed has no description, the         *)
(* backfill completes whether or not there is a title and a link, and the   *)
(* description is the title, else the link, else 'Unknown title', and that  *)
(* is what the serializer gets.                                             *)
C8_DescriptionBackfilled ==
    (BackfillRan /\ ~Present(fetched.feed, "description")) =>
        /\ raised_in # "backfill"
        /\ f.feed["description"] = ExpectedDescription
        /\ pc = "returned" => out.description = ExpectedDescription

(* C9: fetch_and_prepare_feed raises FeedFetchError on empty feed metadata  *)
(* and on a status outside 200..299, and then the transform is never        *)
(* called; with metadata and a status in 200..299 it raises none.           *)
C9_FetchErrorBeforeTransform ==
    fetch_called =>
        /\ (\/ DOMAIN parsed.feed = {}
            \/ "status" \in DOMAIN parsed /\ parsed.status \notin 200..299)
              => /\ pc = "raised"
                 /\ exc = "FeedFetchError"
                 /\ raised_in = "fetch_and_prepare_feed"
                 /\ ~transform_called
        /\ (/\ DOMAIN parsed.feed # {}
            /\ "status" \in DOMAIN parsed
            /\ parsed.status \in 200..299)
              => exc # "FeedFetchError"
        /\ exc = "FeedFetchError" => ~transform_called

C9_Witness ==
    /\ fetch_called
    /\ DOMAIN parsed.feed # {}
    /\ "status" \in DOMAIN parsed
    /\ parsed.status = 300
    /\ exc = "FeedFetchError"

(* C10: with one title (or one url) regex, whatever the valid operation,    *)
(* the surviving entries are those of the feed whose title (or link) holds  *)
(* a match, in the order of the feed; with one title and one url regex      *)
(* under 'AND', those whose title and link both hold a match.               *)
C10_KeepsMatchingEntries ==
    TransformDone =>
        /\ (Len(title_filters) = 1 /\ Len(url_filters) = 0) =>
              f.entries = SelectSeq(fetched.entries,
                  LAMBDA i : HoldsMatch(i, "title", title_filters[1]))
        /\ (Len(title_filters) = 0 /\ Len(url_filters) = 1) =>
              f.entries = SelectSeq(fetched.entries,
                  LAMBDA i : HoldsMatch(i, "link", url_filters[1]))
        /\ (Len(title_filters) = 1 /\ Len(url_filters) = 1 /\ operation = "AND") =>
              f.entries = SelectSeq(fetched.entries,
                  LAMBDA i : /\ HoldsMatch(i, "title", title_filters[1])
                             /\ HoldsMatch(i, "link", url_filters[1]))

C10_Witness ==
    /\ TransformDone
    /\ Len(title_filters) = 1 /\ Len(url_filters) = 1
    /\ operation = "AND"
    /\ Len(fetched.entries) = 2
    /\ f.entries = <<fetched.entries[2]>>
    /\ HoldsMatch(fetched.entries[1], "title", title_filters[1])
    /\ fetched.entries[2].title = <<"b", "a">>

====
